---- MODULE Spec2Model ----
(***************************************************************************)
(* Reflections pipeline (AutumnsGrove/YearlyReview): the coordinator       *)
(* Durable Object, the queue consumer with its extraction and aggregation  *)
(* handlers, the D1 and KV helpers and the OpenRouter client, translated   *)
(* from infrastructure/src, and the phase 0 scripts, from scripts.         *)
(***************************************************************************)
EXTENDS Integers, Sequences, FiniteSets, TLC

VARIABLES
    manifest,      \* manifest.json in JOURNALS_BUCKET: "unreadable" or a sequence of entry dates
    storage,       \* Durable Object storage of the coordinator: key -> value
    response,      \* the last HTTP response of the worker's fetch handler
    lastCtl,       \* history: the last start or reset answered with 200 ("none" before any)
    enqueued,      \* messages the worker code has sent to EXTRACTION_QUEUE / AGGREGATION_QUEUE
    batch,         \* the MessageBatch of the running queue() invocation (<<>> when none)
    idx,           \* position of the next message of batch
    ackedLog,      \* history: bodies of the messages acked so far
    processed,     \* history: date -> number of handleExtraction runs for that date
    deliveries,    \* number of queue() invocations so far
    extractions,   \* D1 table extractions: id -> row
    weekly,        \* D1 table weekly_summaries: id -> row
    monthly,       \* D1 table monthly_summaries: id -> row
    quarterly,     \* D1 table quarterly_notepads: id -> row
    synthesis,     \* D1 table synthesis: id -> row
    job_status,    \* D1 table job_status: job_id -> row
    cache,         \* KV namespace CACHE: key -> serialized value
    gw,            \* the running callOpenRouter call: its locals and outcome
    fetchLog,      \* history: the requests sent to the provider
    sleepLog,      \* history: the delays slept by callOpenRouter, in ms
    now,           \* wall clock, in ms
    invocation,    \* history: the latest queue() invocation: batch size, positions acked, throw
    promptVersion, \* the version of the prompt texts the deployed worker carries
    cacheLog,      \* history: cache key -> the setCachedExtraction call that wrote its value
    journal,       \* the .md files under Journal/2024 and Journal/2025
    preprocessed,  \* preprocessed/: manifest.json and the cleaned entries
    r2,            \* the objects of bucket reflections-journals: key -> object
    putLog         \* history: the PutObject commands sent, per run of the upload script

coordVars == <<manifest, storage, response, lastCtl, enqueued>>
queueVars == <<batch, idx, ackedLog, processed, deliveries, invocation>>
tableVars == <<extractions, weekly, monthly, quarterly, synthesis, job_status>>
gwVars    == <<gw, fetchLog, sleepLog, now>>
cacheHist == <<promptVersion, cacheLog>>
scriptVars == <<journal, preprocessed, r2, putLog>>
vars == <<manifest, storage, response, lastCtl, enqueued, batch, idx, ackedLog,
          processed, deliveries, extractions, weekly, monthly, quarterly,
          synthesis, job_status, cache, gw, fetchLog, sleepLog, now, invocation,
          promptVersion, cacheLog, journal, preprocessed, r2, putLog>>

(***************************************************************************)
(* Bounds of the model.                                                    *)
(***************************************************************************)
MaxBatch == 2          \* messages per delivered batch
MaxDeliveries == 2     \* queue() invocations per behaviour
MaxBody == 2           \* distinct artifact bodies
MaxConfigRetries == 6  \* largest configured maxRetries
MaxRequests == 51      \* requests of concurrent invocations

Min(a, b) == IF a < b THEN a ELSE b

\* Calendar dates are <<year, month, day>>; the ISO text of a date orders as the tuple does.
PipelineDates == {<<2025, 3, 3>>, <<2025, 3, 4>>}
PipelineWeeks == {<<2025, 3, 3>>}
PipelineMonths == {<<2025, 3>>}
PipelineQuarters == {<<2025, 1>>}
Bodies == 1..MaxBody

\* manifest.json: absent/unreadable, or the ascending list of entry dates
Manifest(ds) == [readable |-> TRUE, entries |-> ds]
Manifests == {[readable |-> FALSE, entries |-> <<>>],
              Manifest(<<<<2025, 3, 3>>>>),
              Manifest(<<<<2025, 3, 3>>, <<2025, 3, 4>>>>)}

EmptyMap == [k \in {} |-> 0]

\* null
Null == [isNull |-> TRUE]

\* f with key k bound to v (INSERT OR REPLACE by primary key, KV put, storage put)
Put(f, k, v) == [x \in DOMAIN f \cup {k} |-> IF x = k THEN v ELSE f[x]]

(***************************************************************************)
(* Serialization and hashing.                                              *)
(***************************************************************************)
\* JSON.stringify / JSON.parse of an object of JSON values: the text lists
\* the properties as name/value pairs, and parsing rebuilds the object from them
JSONStringify(obj) == {<<k, obj[k]>> : k \in DOMAIN obj}
JSONParse(text) ==
    [k \in {p[1] : p \in text} |-> (CHOOSE p \in text : p[1] = k)[2]]

(***************************************************************************)
(* Text: a string is the sequence of its characters; a digit is its value  *)
(* and '-' is Dash, which sorts before the digits as in ASCII.             *)
(***************************************************************************)
Dash == 0 - 1

RECURSIVE ToText(_)
\* Number.prototype.toString of a non-negative integer
ToText(n) == IF n < 10 THEN <<n>> ELSE Append(ToText(n \div 10), n % 10)

RECURSIVE PadStart(_, _, _)
\* String.prototype.padStart(len, c)
PadStart(t, len, c) == IF Len(t) >= len THEN t ELSE PadStart(<<c>> \o t, len, c)

RECURSIVE ParseNumber(_)
\* Number(text) / parseInt(text) of a digit string
ParseNumber(t) ==
    IF t = <<>> THEN 0 ELSE 10 * ParseNumber(SubSeq(t, 1, Len(t) - 1)) + t[Len(t)]

RECURSIVE Split(_, _)
\* String.prototype.split(sep) for a one-character separator
Split(t, sep) ==
    IF \A i \in DOMAIN t : t[i] # sep THEN <<t>>
    ELSE LET i == CHOOSE i \in DOMAIN t : t[i] = sep /\ \A j \in 1..(i - 1) : t[j] # sep
         IN  <<SubSeq(t, 1, i - 1)>> \o Split(SubSeq(t, i + 1, Len(t)), sep)

RECURSIVE SplitText(_, _)
\* String.prototype.split(sep) for a separator of one or more characters
SplitText(t, sep) ==
    LET at == {i \in 1..(Len(t) - Len(sep) + 1) : SubSeq(t, i, i + Len(sep) - 1) = sep}
    IN  IF at = {} THEN <<t>>
        ELSE LET i == CHOOSE i \in at : \A j \in at : i <= j
             IN  <<SubSeq(t, 1, i - 1)>> \o SplitText(SubSeq(t, i + Len(sep), Len(t)), sep)

\* bytewise comparison of two texts (SQLite BINARY collation)
TextLess(a, b) ==
    \E i \in 1..(Min(Len(a), Len(b)) + 1) :
        /\ \A j \in 1..(i - 1) : a[j] = b[j]
        /\ i <= Len(b)
        /\ (i <= Len(a) => a[i] < b[i])
TextLeq(a, b) == a = b \/ TextLess(a, b)

\* ISO texts YYYY-MM-DD and YYYY-MM
\* 'Q' sorts after the digits
QChar == 33
DateText(y, m, d) ==
    ToText(y) \o <<Dash>> \o PadStart(ToText(m), 2, 0) \o <<Dash>> \o PadStart(ToText(d), 2, 0)
MonthText(y, m) == ToText(y) \o <<Dash>> \o PadStart(ToText(m), 2, 0)

\* hashContent: SHA-256 as 64 hex digits; distinct contents give distinct digests
SHA256HexLen == 64
hashContent(content) == [i \in 1..SHA256HexLen |-> (content * i) % 16]

\* String.prototype.slice(0, n)
Slice(str, n) == SubSeq(str, 1, Min(n, Len(str)))

\* preprocess.ts hashContent: the first 16 hex digits of the SHA-256 digest
hashContentPreprocess_Short(content) == Slice(hashContent(content), 8)

ManifestHashLen == 16
hashContentPreprocess(content) == Slice(hashContent(content), ManifestHashLen)

\* ':' is neither a digit of a date nor a hex digit
Colon == 20

\* the key with the content hash left out
extractionCacheKey_NoHash(entryDate, contentHash) ==
    <<"extract:">> \o entryDate

\* `extract:${entryDate}:${contentHash.slice(0, 16)}`
CacheKeyHashLen == 16
extractionCacheKey(entryDate, contentHash) ==
    <<"extract:">> \o entryDate \o <<Colon>> \o Slice(contentHash, CacheKeyHashLen)

\* artifact bodies: the fields the helpers read, and a payload
Extraction(d, v) == [date |-> d, day_of_week |-> "Mon", mood_score |-> v]
WeeklySummary(w, v) == [week_start |-> w, week_end |-> <<w[1], w[2], w[3] + 6>>, avg_mood |-> v]
MonthlySummary(m, v) == [month |-> m, happiness_index |-> v]
QuarterlyNotepad(q, v) == [quarter |-> q, social_engagement_level |-> v]
TwoYearSynthesis(v) == [thesis |-> v]

\* a JournalExtraction as the model returns it: the fields with documented
\* bounds; a nullable number is the set of its values ({} is null)
JournalExtraction(d, score, themes) ==
    [date |-> d, day_of_week |-> "Mon", mood_score |-> score, energy_level |-> score,
     sleep_quality |-> {}, social_energy_spent |-> score,
     dominant_themes |-> [i \in 1..themes |-> i], key_quotes |-> <<1, 2>>]

(***************************************************************************)
(* Coordinator Durable Object.                                             *)
(***************************************************************************)
JsonResponse(op, body) == [op |-> op, status |-> 200, body |-> body]

\* getStatus: state || { phase: 'idle' }
StatusBody_NoDefault(st) ==
    IF "pipeline" \in DOMAIN st THEN st["pipeline"] ELSE [phase |-> "null"]

StatusBody(st) ==
    IF "pipeline" \in DOMAIN st THEN st["pipeline"] ELSE [phase |-> "idle"]

\* storage.deleteAll()
DeleteAll(st) == EmptyMap

\* a start that persists the state its TODO list describes
StartPipeline_Persists ==
    /\ storage' = Put(storage, "pipeline", [phase |-> "extracting"])
    /\ response' = JsonResponse("start", [status |-> "started"])
    /\ lastCtl' = "start"
    /\ UNCHANGED <<manifest, enqueued>>
    /\ UNCHANGED <<queueVars, tableVars, cache, gwVars>>
    /\ UNCHANGED <<cacheHist, scriptVars>>

StartPipeline ==
    /\ response' = JsonResponse("start", [status |-> "started"])
    /\ lastCtl' = "start"
    /\ UNCHANGED <<manifest, storage, enqueued>>
    /\ UNCHANGED <<queueVars, tableVars, cache, gwVars>>
    /\ UNCHANGED <<cacheHist, scriptVars>>

GetStatus ==
    /\ response' = JsonResponse("status", StatusBody(storage))
    /\ UNCHANGED <<manifest, storage, lastCtl, enqueued>>
    /\ UNCHANGED <<queueVars, tableVars, cache, gwVars>>
    /\ UNCHANGED <<cacheHist, scriptVars>>

ResetPipeline_DropsArtifacts ==
    /\ storage' = DeleteAll(storage)
    /\ response' = JsonResponse("reset", [status |-> "reset"])
    /\ lastCtl' = "reset"
    /\ extractions' = EmptyMap
    /\ cache' = EmptyMap
    /\ UNCHANGED <<manifest, enqueued>>
    /\ UNCHANGED <<queueVars, weekly, monthly, quarterly, synthesis, job_status, gwVars>>
    /\ UNCHANGED <<cacheHist, scriptVars>>

ResetPipeline ==
    /\ storage' = DeleteAll(storage)
    /\ response' = JsonResponse("reset", [status |-> "reset"])
    /\ lastCtl' = "reset"
    /\ UNCHANGED <<manifest, enqueued>>
    /\ UNCHANGED <<queueVars, tableVars, cache, gwVars>>
    /\ UNCHANGED <<cacheHist, scriptVars>>

\* fetch: any other /api/ path reaches the coordinator's default case
NotFound ==
    /\ response' = [op |-> "other", status |-> 404, body |-> "Not Found"]
    /\ UNCHANGED <<manifest, storage, lastCtl, enqueued>>
    /\ UNCHANGED <<queueVars, tableVars, cache, gwVars>>
    /\ UNCHANGED <<cacheHist, scriptVars>>

\* fetch: a path outside /api/ is answered by the worker itself
Banner ==
    /\ response' = [op |-> "root", status |-> 200, body |-> "Reflections Pipeline API"]
    /\ UNCHANGED <<manifest, storage, lastCtl, enqueued>>
    /\ UNCHANGED <<queueVars, tableVars, cache, gwVars>>
    /\ UNCHANGED <<cacheHist, scriptVars>>

(***************************************************************************)
(* Queue consumer.                                                         *)
(***************************************************************************)
ExtractionJob(d, c) ==
    [type |-> "extraction", date |-> d, contentHash |-> Slice(hashContent(c), 16), tier |-> "none"]
AggregationJob(t, d) ==
    [type |-> "aggregation", date |-> d, contentHash |-> <<>>, tier |-> t]
OtherMessage == [type |-> "other", date |-> <<>>, contentHash |-> <<>>, tier |-> "none"]
\* a message whose body is null: it has no property to read
NullBody == Null

Messages ==
    {ExtractionJob(d, 1) : d \in PipelineDates}
        \cup {AggregationJob("weekly", <<2025, 3, 3>>), OtherMessage, NullBody}

Batches == UNION {[1..n -> Messages] : n \in 1..MaxBatch}

\* handleExtraction: reads the job and logs it
handleExtraction(m) ==
    /\ processed' = [processed EXCEPT ![m.date] = @ + 1]
    /\ UNCHANGED <<tableVars, cache, gwVars, enqueued>>

\* handleAggregation: reads the job and logs it
handleAggregation(m) ==
    /\ UNCHANGED <<processed, tableVars, cache, gwVars, enqueued>>

\* the runtime invokes queue(batch, env, ctx)
QueueDeliver ==
    /\ batch = <<>>
    /\ deliveries < MaxDeliveries
    /\ \E b \in Batches : batch' = b
    /\ idx' = 1
    /\ deliveries' = deliveries + 1
    /\ invocation' = [size |-> Len(batch'), acked |-> <<>>, threw |-> 0]
    /\ UNCHANGED <<ackedLog, processed>>
    /\ UNCHANGED <<coordVars, tableVars, cache, gwVars>>
    /\ UNCHANGED <<cacheHist, scriptVars>>

\* the loop with messages of other types left without an ack
QueueStep_SkipsOther ==
    /\ batch # <<>>
    /\ LET m == batch[idx] IN
        IF "type" \notin DOMAIN m
        THEN /\ batch' = <<>>
             /\ idx' = 0
             /\ invocation' = [invocation EXCEPT !.threw = idx]
             /\ UNCHANGED <<ackedLog, processed, tableVars, cache, gwVars, enqueued>>
        ELSE /\ IF m.type = "extraction" THEN handleExtraction(m)
                ELSE IF m.type = "aggregation" THEN handleAggregation(m)
                ELSE UNCHANGED <<processed, tableVars, cache, gwVars, enqueued>>
             /\ IF m.type \in {"extraction", "aggregation"}
                THEN /\ ackedLog' = ackedLog \cup {m}
                     /\ invocation' = [invocation EXCEPT !.acked = Append(@, idx)]
                ELSE UNCHANGED <<ackedLog, invocation>>
             /\ IF idx < Len(batch)
                THEN idx' = idx + 1 /\ batch' = batch
                ELSE idx' = 0 /\ batch' = <<>>
    /\ UNCHANGED <<manifest, storage, response, lastCtl, deliveries>>
    /\ UNCHANGED <<cacheHist, scriptVars>>

\* one iteration of the loop over batch.messages: data.type is read (a null
\* body throws a TypeError out of queue(), which ends the invocation), the
\* handler of the type runs, and the message is acked; the invocation ends
\* after the last message
QueueStep ==
    /\ batch # <<>>
    /\ LET m == batch[idx] IN
        IF "type" \notin DOMAIN m
        THEN /\ batch' = <<>>
             /\ idx' = 0
             /\ invocation' = [invocation EXCEPT !.threw = idx]
             /\ UNCHANGED <<ackedLog, processed, tableVars, cache, gwVars, enqueued>>
        ELSE /\ IF m.type = "extraction" THEN handleExtraction(m)
                ELSE IF m.type = "aggregation" THEN handleAggregation(m)
                ELSE UNCHANGED <<processed, tableVars, cache, gwVars, enqueued>>
             /\ ackedLog' = ackedLog \cup {m}
             /\ invocation' = [invocation EXCEPT !.acked = Append(@, idx)]
             /\ IF idx < Len(batch)
                THEN idx' = idx + 1 /\ batch' = batch
                ELSE idx' = 0 /\ batch' = <<>>
    /\ UNCHANGED <<manifest, storage, response, lastCtl, deliveries>>
    /\ UNCHANGED <<cacheHist, scriptVars>>

(***************************************************************************)
(* D1 and KV helpers (lib/d1.ts, lib/cache.ts).                            *)
(***************************************************************************)
CACHE_TTL_SECONDS == 60 * 60 * 24 * 7

\* the id taken from the day of the week instead of the date
storeExtraction_DayId(date, extraction) ==
    /\ extractions' = Put(extractions, <<"extraction", extraction.day_of_week>>,
                          [id |-> <<"extraction", extraction.day_of_week>>, date |-> date,
                           day_of_week |-> extraction.day_of_week,
                           extraction_json |-> JSONStringify(extraction)])
    /\ UNCHANGED <<weekly, monthly, quarterly, synthesis, job_status, cache>>
    /\ UNCHANGED <<coordVars, queueVars, gwVars>>
    /\ UNCHANGED <<cacheHist, scriptVars>>

storeExtraction(date, extraction) ==
    /\ extractions' = Put(extractions, <<"extraction", date>>,
                          [id |-> <<"extraction", date>>, date |-> date,
                           day_of_week |-> extraction.day_of_week,
                           extraction_json |-> JSONStringify(extraction)])
    /\ UNCHANGED <<weekly, monthly, quarterly, synthesis, job_status, cache>>
    /\ UNCHANGED <<coordVars, queueVars, gwVars>>
    /\ UNCHANGED <<cacheHist, scriptVars>>

storeWeeklySummary(summary) ==
    /\ weekly' = Put(weekly, <<"weekly", summary.week_start>>,
                     [id |-> <<"weekly", summary.week_start>>,
                      week_start |-> summary.week_start, week_end |-> summary.week_end,
                      summary_json |-> JSONStringify(summary)])
    /\ UNCHANGED <<extractions, monthly, quarterly, synthesis, job_status, cache>>
    /\ UNCHANGED <<coordVars, queueVars, gwVars>>
    /\ UNCHANGED <<cacheHist, scriptVars>>

\* the id without the month interpolated
storeMonthlySummary_ConstId(summary) ==
    /\ monthly' = Put(monthly, <<"monthly">>,
                      [id |-> <<"monthly">>, month |-> summary.month,
                       summary_json |-> JSONStringify(summary)])
    /\ UNCHANGED <<extractions, weekly, quarterly, synthesis, job_status, cache>>
    /\ UNCHANGED <<coordVars, queueVars, gwVars>>
    /\ UNCHANGED <<cacheHist, scriptVars>>

storeMonthlySummary(summary) ==
    /\ monthly' = Put(monthly, <<"monthly", summary.month>>,
                      [id |-> <<"monthly", summary.month>>, month |-> summary.month,
                       summary_json |-> JSONStringify(summary)])
    /\ UNCHANGED <<extractions, weekly, quarterly, synthesis, job_status, cache>>
    /\ UNCHANGED <<coordVars, queueVars, gwVars>>
    /\ UNCHANGED <<cacheHist, scriptVars>>

storeQuarterlyNotepad(notepad) ==
    /\ quarterly' = Put(quarterly, <<"quarterly", notepad.quarter>>,
                        [id |-> <<"quarterly", notepad.quarter>>, quarter |-> notepad.quarter,
                         notepad_json |-> JSONStringify(notepad)])
    /\ UNCHANGED <<extractions, weekly, monthly, synthesis, job_status, cache>>
    /\ UNCHANGED <<coordVars, queueVars, gwVars>>
    /\ UNCHANGED <<cacheHist, scriptVars>>

storeSynthesis(s) ==
    /\ synthesis' = Put(synthesis, "main", [id |-> "main", synthesis_json |-> JSONStringify(s)])
    /\ UNCHANGED <<extractions, weekly, monthly, quarterly, job_status, cache>>
    /\ UNCHANGED <<coordVars, queueVars, gwVars>>
    /\ UNCHANGED <<cacheHist, scriptVars>>

\* the rows of a table, and a result set under ORDER BY col
Rows(db) == {db[id] : id \in DOMAIN db}

RECURSIVE OrderBy(_, _)
OrderBy(rows, col) ==
    IF rows = {} THEN <<>>
    ELSE LET r == CHOOSE r \in rows : \A q \in rows : TextLeq(r[col], q[col])
         IN  <<r>> \o OrderBy(rows \ {r}, col)

\* getExtraction: the values .first() may return (no ORDER BY in the query)
getExtraction(db, date) ==
    LET hits == {r \in Rows(db) : r.date = date}
    IN  IF hits = {} THEN {Null} ELSE {JSONParse(r.extraction_json) : r \in hits}

\* the upper end of the range taken as exclusive
getExtractionsInRange_ExclusiveEnd(db, startDate, endDate) ==
    LET hits == OrderBy({r \in Rows(db) : TextLeq(startDate, r.date) /\ TextLess(r.date, endDate)},
                        "date")
    IN  [i \in DOMAIN hits |-> JSONParse(hits[i].extraction_json)]

getExtractionsInRange(db, startDate, endDate) ==
    LET hits == OrderBy({r \in Rows(db) : TextLeq(startDate, r.date) /\ TextLeq(r.date, endDate)},
                        "date")
    IN  [i \in DOMAIN hits |-> JSONParse(hits[i].extraction_json)]

\* the next month without zero padding
incrementMonth_NoPad(month) ==
    LET parts == Split(month, Dash)
        year == ParseNumber(parts[1])
        m == ParseNumber(parts[2])
    IN  IF m = 12 THEN ToText(year + 1) \o <<Dash, 0, 1>>
        ELSE ToText(year) \o <<Dash>> \o ToText(m + 1)

incrementMonth(month) ==
    LET parts == Split(month, Dash)
        year == ParseNumber(parts[1])
        m == ParseNumber(parts[2])
    IN  IF m = 12 THEN ToText(year + 1) \o <<Dash, 0, 1>>
        ELSE ToText(year) \o <<Dash>> \o PadStart(ToText(m + 1), 2, 0)

getWeeklySummariesForMonth(db, month) ==
    LET startDate == month \o <<Dash, 0, 1>>
        nextMonth == incrementMonth(month)
        endDate == nextMonth \o <<Dash, 0, 1>>
        hits == OrderBy({r \in Rows(db) : TextLeq(startDate, r.week_start)
                                            /\ TextLess(r.week_start, endDate)},
                        "week_start")
    IN  [i \in DOMAIN hits |-> JSONParse(hits[i].summary_json)]

\* the first month of the quarter counted from quarterNum * 3
getMonthlySummariesForQuarter_ZeroBased(db, quarter) ==
    LET parts == SplitText(quarter, <<Dash, QChar>>)
        year == parts[1]
        quarterNum == ParseNumber(parts[2])
        startMonth == quarterNum * 3 + 1
        months == [offset \in 1..3 |->
                     year \o <<Dash>> \o PadStart(ToText(startMonth + (offset - 1)), 2, 0)]
        hits == OrderBy({r \in Rows(db) : \E i \in 1..3 : r.month = months[i]}, "month")
    IN  [i \in DOMAIN hits |-> JSONParse(hits[i].summary_json)]

getMonthlySummariesForQuarter(db, quarter) ==
    LET parts == SplitText(quarter, <<Dash, QChar>>)
        year == parts[1]
        quarterNum == ParseNumber(parts[2])
        startMonth == (quarterNum - 1) * 3 + 1
        months == [offset \in 1..3 |->
                     year \o <<Dash>> \o PadStart(ToText(startMonth + (offset - 1)), 2, 0)]
        hits == OrderBy({r \in Rows(db) : \E i \in 1..3 : r.month = months[i]}, "month")
    IN  [i \in DOMAIN hits |-> JSONParse(hits[i].summary_json)]

setCachedExtraction(date, contentHash, extraction) ==
    /\ cache' = Put(cache, extractionCacheKey(date, contentHash),
                    [value |-> JSONStringify(extraction), expirationTtl |-> CACHE_TTL_SECONDS])
    /\ cacheLog' = Put(cacheLog, extractionCacheKey(date, contentHash),
                       [date |-> date, contentHash |-> contentHash, extraction |-> extraction,
                        promptVersion |-> promptVersion])
    /\ UNCHANGED <<tableVars, coordVars, queueVars, gwVars, promptVersion, scriptVars>>

(***************************************************************************)
(* OpenRouter client (lib/openrouter.ts).                                  *)
(***************************************************************************)
\* the default ceiling off by one
DefaultMaxRetries_Two == 3 - 1

DefaultMaxRetries == 3
DefaultRetryDelayMs == 2000

\* what the provider (or the network) does with one request
ProviderAnswers == {"429", "ok", "okBadBody", "4xx", "5xx", "netErr"}

\* OpenRouterConfig: maxRetries and retryDelayMs are optional
Configs ==
    {[apiKey |-> "key"]}
        \cup {[apiKey |-> "key", maxRetries |-> n] : n \in 0..MaxConfigRetries}
        \cup {[apiKey |-> "key", retryDelayMs |-> 1000]}

RECURSIVE Pow2(_)
\* Math.pow(2, n)
Pow2(n) == IF n = 0 THEN 1 ELSE 2 * Pow2(n - 1)

\* the headers of the POST to /chat/completions
RequestHeaders_NoZDR(apiKey) ==
    [ContentType |-> "application/json", Authorization |-> <<"Bearer", apiKey>>,
     Referer |-> "https://reflections.local", Title |-> "Reflections Pipeline"]

RequestHeaders(apiKey) ==
    [ContentType |-> "application/json", Authorization |-> <<"Bearer", apiKey>>,
     XZDR |-> "true", Referer |-> "https://reflections.local",
     Title |-> "Reflections Pipeline"]

\* fetch(...): the request as the provider sees it
Request(caller, apiKey, attempt, at) ==
    [caller |-> caller, headers |-> RequestHeaders(apiKey), attempt |-> attempt, at |-> at]

GwIdle ==
    [pc |-> "idle", isDefault |-> FALSE, apiKey |-> "none", maxRetries |-> 0, retryDelayMs |-> 0,
     attempt |-> 0, lastError |-> "none", outcome |-> "none", history |-> <<>>]

\* const { apiKey, maxRetries = 3, retryDelayMs = 2000 } = config; lastError = null; attempt = 0
CallOpenRouter ==
    /\ gw.pc = "idle"
    /\ \E cfg \in Configs :
         gw' = [gw EXCEPT !.pc = "running",
                          !.apiKey = cfg.apiKey,
                          !.isDefault = (DOMAIN cfg = {"apiKey"}),
                          !.maxRetries = IF "maxRetries" \in DOMAIN cfg
                                         THEN cfg.maxRetries ELSE DefaultMaxRetries,
                          !.retryDelayMs = IF "retryDelayMs" \in DOMAIN cfg
                                           THEN cfg.retryDelayMs ELSE DefaultRetryDelayMs]
    /\ UNCHANGED <<fetchLog, sleepLog, now>>
    /\ UNCHANGED <<coordVars, queueVars, tableVars, cache>>
    /\ UNCHANGED <<cacheHist, scriptVars>>

\* the loop condition off by one
LoopCondition_OffByOne(attempt, maxRetries) == attempt <= maxRetries

\* for (let attempt = 0; attempt < maxRetries; attempt++)
LoopCondition(attempt, maxRetries) == attempt < maxRetries

\* one iteration of the for loop: the request, the provider's answer, and the
\* branch taken on it (return, continue after a 429, or the catch block)
GwAttempt ==
    /\ gw.pc = "running"
    /\ LoopCondition(gw.attempt, gw.maxRetries)
    /\ \E r \in ProviderAnswers :
         LET delay == gw.retryDelayMs * Pow2(gw.attempt)
             seen == Append(gw.history, r)
         IN  /\ fetchLog' = Append(fetchLog,
                                   Request(<<"direct", <<>>>>, gw.apiKey, gw.attempt, now))
             /\ IF r = "ok"
                THEN /\ gw' = [gw EXCEPT !.pc = "returned", !.outcome = "content",
                                         !.history = seen]
                     /\ sleepLog' = sleepLog
                     /\ now' = now
                ELSE IF r = "429"
                THEN /\ gw' = [gw EXCEPT !.attempt = @ + 1, !.history = seen]
                     /\ sleepLog' = Append(sleepLog, delay)
                     /\ now' = now + delay
                ELSE /\ gw' = [gw EXCEPT !.attempt = @ + 1, !.lastError = r,
                                         !.history = seen]
                     /\ sleepLog' = Append(sleepLog, delay)
                     /\ now' = now + delay
    /\ UNCHANGED <<coordVars, queueVars, tableVars, cache>>
    /\ UNCHANGED <<cacheHist, scriptVars>>

\* the loop ends with the generic error whatever was caught
GwExhausted_DropsLastError ==
    /\ gw.pc = "running"
    /\ ~LoopCondition(gw.attempt, gw.maxRetries)
    /\ gw' = [gw EXCEPT !.pc = "thrown", !.outcome = "Max retries exceeded"]
    /\ UNCHANGED <<fetchLog, sleepLog, now>>
    /\ UNCHANGED <<coordVars, queueVars, tableVars, cache>>
    /\ UNCHANGED <<cacheHist, scriptVars>>

\* the loop ends: throw lastError || new Error('Max retries exceeded')
GwExhausted ==
    /\ gw.pc = "running"
    /\ ~LoopCondition(gw.attempt, gw.maxRetries)
    /\ gw' = [gw EXCEPT !.pc = "thrown",
                        !.outcome = IF gw.lastError # "none" THEN gw.lastError
                                    ELSE "Max retries exceeded"]
    /\ UNCHANGED <<fetchLog, sleepLog, now>>
    /\ UNCHANGED <<coordVars, queueVars, tableVars, cache>>
    /\ UNCHANGED <<cacheHist, scriptVars>>

\* rate limiting: the documented ceiling, and the clock readings of the model
RequestsPerMinute == 50
MinuteMs == 60 * 1000
RateClock == {0, 30000, 60000}

\* another worker invocation calls callOpenRouter: its first loop iteration
\* sends the request at once
ConcurrentFetch ==
    /\ Len(fetchLog) < MaxRequests
    /\ fetchLog' = Append(fetchLog, Request(<<"concurrent", <<>>>>, "key", 0, now))
    /\ UNCHANGED <<gw, sleepLog, now>>
    /\ UNCHANGED <<coordVars, queueVars, tableVars, cache>>
    /\ UNCHANGED <<cacheHist, scriptVars>>

\* time passes
Tick ==
    /\ \E t \in RateClock : t > now /\ now' = t
    /\ UNCHANGED <<gw, fetchLog, sleepLog>>
    /\ UNCHANGED <<coordVars, queueVars, tableVars, cache>>
    /\ UNCHANGED <<cacheHist, scriptVars>>

(***************************************************************************)
(* Specifications.                                                         *)
(***************************************************************************)
\* the worker before any request, with an empty database and cache
WorkerInit ==
    /\ manifest \in Manifests
    /\ storage = EmptyMap
    /\ response = [op |-> "none", status |-> 0, body |-> "none"]
    /\ lastCtl = "none"
    /\ enqueued = <<>>
    /\ batch = <<>>
    /\ idx = 0
    /\ ackedLog = {}
    /\ processed = [d \in PipelineDates |-> 0]
    /\ deliveries = 0
    /\ extractions = EmptyMap
    /\ weekly = EmptyMap
    /\ monthly = EmptyMap
    /\ quarterly = EmptyMap
    /\ synthesis = EmptyMap
    /\ job_status = EmptyMap
    /\ cache = EmptyMap
    /\ gw = GwIdle
    /\ fetchLog = <<>>
    /\ sleepLog = <<>>
    /\ now = 0
    /\ invocation = [size |-> 0, acked |-> <<>>, threw |-> 0]
    /\ promptVersion = 1
    /\ cacheLog = EmptyMap

\* no journal files, nothing preprocessed, an empty bucket
ScriptsIdle ==
    /\ journal = {}
    /\ preprocessed = [manifest |-> Null, files |-> EmptyMap]
    /\ r2 = EmptyMap
    /\ putLog = <<>>

Init == WorkerInit /\ ScriptsIdle

\* the deployed worker: its fetch and queue entry points
Next ==
    \/ StartPipeline
    \/ GetStatus
    \/ ResetPipeline
    \/ NotFound
    \/ Banner
    \/ QueueDeliver
    \/ QueueStep

Spec == Init /\ [][Next]_vars

\* the queue consumer runs a delivered batch to its end
FairSpec == Init /\ [][Next]_vars /\ WF_vars(QueueStep)

\* the coordinator next to clients of the persistence and cache helpers
ArtifactNext ==
    \/ StartPipeline
    \/ GetStatus
    \/ ResetPipeline
    \/ \E d \in PipelineDates, v \in Bodies : storeExtraction(d, Extraction(d, v))
    \/ \E w \in PipelineWeeks, v \in Bodies : storeWeeklySummary(WeeklySummary(w, v))
    \/ \E m \in PipelineMonths, v \in Bodies : storeMonthlySummary(MonthlySummary(m, v))
    \/ \E q \in PipelineQuarters, v \in Bodies : storeQuarterlyNotepad(QuarterlyNotepad(q, v))
    \/ \E v \in Bodies : storeSynthesis(TwoYearSynthesis(v))
    \/ \E d \in PipelineWeeks, v \in Bodies :
          setCachedExtraction(d, hashContent(1), Extraction(d, v))

ArtifactSpec == Init /\ [][ArtifactNext]_vars

\* one call of the OpenRouter client against an arbitrary provider
GatewayNext ==
    \/ CallOpenRouter
    \/ GwAttempt
    \/ GwExhausted

GatewaySpec == Init /\ [][GatewayNext]_vars

\* the event loop resumes the call whenever the awaited fetch or sleep settles
GatewayFairSpec == Init /\ [][GatewayNext]_vars /\ WF_vars(GwAttempt) /\ WF_vars(GwExhausted)

(***************************************************************************)
(* Properties.                                                             *)
(***************************************************************************)
Phase == StatusBody(storage).phase

\* a start has been answered 'started' and no reset has followed it: by the
\* transition table the pipeline it started is extracting, aggregating or complete
StartedSinceReset == lastCtl = "start"

\* C1: a start invoked while the pipeline is not idle (a start was accepted and
\* no reset followed) is rejected with an error response and leaves the
\* coordinator's storage as it was.
C1_StartRejectedWhenNotIdle ==
    [][(StartPipeline /\ StartedSinceReset)
          => (response'.status >= 400 /\ storage' = storage)]_vars

\* C2: a start invoked in phase idle with a readable manifest moves the pipeline
\* to extracting, persists totalEntries = number of manifest entries,
\* processedEntries = 0 and a startedAt timestamp, and enqueues exactly one
\* extraction job per manifest entry.
C2_StartMovesToExtracting ==
    [][(StartPipeline /\ Phase = "idle" /\ manifest.readable)
          => LET st == StatusBody(storage') IN
             /\ st.phase = "extracting"
             /\ st.totalEntries = Len(manifest.entries)
             /\ st.processedEntries = 0
             /\ st.startedAt # "null"
             /\ Len(enqueued') = Len(manifest.entries)
             /\ \A i \in DOMAIN manifest.entries :
                   \E j \in DOMAIN enqueued' :
                      /\ enqueued'[j].type = "extraction"
                      /\ enqueued'[j].date = manifest.entries[i]]_vars

\* C3: once a readable manifest has been started, the pipeline eventually
\* reaches phase complete with completedAt set.
C3_PipelineCompletes ==
    (StartedSinceReset /\ manifest.readable)
        ~> (Phase = "complete" /\ StatusBody(storage).completedAt # "null")

\* C5: every acked extraction message has its extraction row persisted under
\* the job's entry date, its body cached, and its job status succeeded.
C5_AckOnlyAfterPersisted ==
    \A m \in ackedLog :
        m.type = "extraction" =>
            /\ <<"extraction", m.date>> \in DOMAIN extractions
            /\ extractionCacheKey(m.date, m.contentHash) \in DOMAIN cache
            /\ <<"extraction", m.date>> \in DOMAIN job_status
            /\ job_status[<<"extraction", m.date>>].status = "succeeded"

\* requests sent to the provider on behalf of the extraction job of date d
LLMCallsFor(d) ==
    Cardinality({i \in DOMAIN fetchLog : fetchLog[i].caller = <<"extraction", d>>})

\* C6: a job dispatched twice has caused exactly one LLM call in total.
C6_OneLLMCallPerJob ==
    \A d \in PipelineDates : processed[d] >= 2 => LLMCallsFor(d) = 1

\* C8: a status call issued after a reset, with no start in between, reports
\* phase idle and nothing else (no counts, tier or timestamps).
C8_StatusIdleAfterReset ==
    (response.op = "status" /\ lastCtl = "reset") => response.body = [phase |-> "idle"]

C8_Witness ==
    /\ response.op = "status"
    /\ lastCtl = "reset"
    /\ ackedLog # {}

Artifacts == <<extractions, weekly, monthly, quarterly, synthesis, cache>>

\* C9: a reset request leaves the rows of the five artifact tables and the
\* cache entries as they were.
C9_ResetPreservesArtifacts ==
    [][(response'.op = "reset" /\ response.op # "reset") => UNCHANGED Artifacts]_vars

C9_Witness ==
    /\ response.op = "reset"
    /\ extractions # EmptyMap
    /\ weekly # EmptyMap
    /\ monthly # EmptyMap
    /\ quarterly # EmptyMap
    /\ synthesis # EmptyMap
    /\ cache # EmptyMap

\* C10: under the default configuration, a call whose first two requests were
\* answered 429 sends a third request, and when that one is answered
\* successfully the call returns the response text.
C10_Two429ThenSuccess ==
    (gw.isDefault /\ Len(gw.history) >= 2 /\ gw.history[1] = "429" /\ gw.history[2] = "429")
        => /\ Len(gw.history) = 2 => (gw.pc = "running" /\ gw.attempt < gw.maxRetries)
           /\ (Len(gw.history) = 3 /\ gw.history[3] = "ok")
                 => (gw.pc = "returned" /\ gw.outcome = "content")

C10_Witness ==
    /\ gw.isDefault
    /\ gw.history = <<"429", "429", "ok">>
    /\ gw.pc = "returned"
    /\ gw.outcome = "content"

\* inputs of the persistence helpers: ISO texts
D1Dates == {DateText(2025, 2, 28), DateText(2025, 3, 1), DateText(2025, 3, 3),
            DateText(2025, 12, 31)}
RangeEnds == D1Dates \cup {DateText(2025, 3, 2), DateText(2026, 1, 1)}
\* Mondays, with the Sunday that ends the week
D1Weeks == {<<DateText(2024, 12, 30), DateText(2025, 1, 5)>>,
            <<DateText(2025, 1, 27), DateText(2025, 2, 2)>>,
            <<DateText(2025, 3, 31), DateText(2025, 4, 6)>>,
            <<DateText(2025, 9, 1), DateText(2025, 9, 7)>>,
            <<DateText(2025, 9, 29), DateText(2025, 10, 5)>>}
AllMonths == {MonthText(y, m) : y \in {2024, 2025}, m \in 1..12}
QuarterText(y, n) == ToText(y) \o <<Dash, QChar, n>>
WeeklySummaryOf(w, v) == [week_start |-> w[1], week_end |-> w[2], avg_mood |-> v]

\* clients of storeExtraction
ExtractionNext ==
    \E d \in D1Dates, v \in Bodies : storeExtraction(d, Extraction(d, v))

ExtractionSpec == Init /\ [][ExtractionNext]_vars

\* clients of storeWeeklySummary
WeeklyNext ==
    \E w \in D1Weeks, v \in Bodies : storeWeeklySummary(WeeklySummaryOf(w, v))

WeeklySpec == Init /\ [][WeeklyNext]_vars

UpsertDates == {DateText(2025, 3, 3), DateText(2025, 3, 4)}
UpsertWeeks == {<<DateText(2025, 3, 3), DateText(2025, 3, 9)>>,
                <<DateText(2025, 3, 10), DateText(2025, 3, 16)>>}
UpsertMonths == {MonthText(2025, 3), MonthText(2025, 4)}
UpsertQuarters == {QuarterText(2025, 1), QuarterText(2025, 2)}

\* clients of the five store helpers
UpsertNext ==
    \/ \E d \in UpsertDates, v \in Bodies : storeExtraction(d, Extraction(d, v))
    \/ \E w \in UpsertWeeks, v \in Bodies : storeWeeklySummary(WeeklySummaryOf(w, v))
    \/ \E m \in UpsertMonths, v \in Bodies : storeMonthlySummary(MonthlySummary(m, v))
    \/ \E q \in UpsertQuarters, v \in Bodies : storeQuarterlyNotepad(QuarterlyNotepad(q, v))
    \/ \E v \in Bodies : storeSynthesis(TwoYearSynthesis(v))

UpsertSpec == Init /\ [][UpsertNext]_vars

D1Months == {MonthText(2024, 12), MonthText(2025, 1), MonthText(2025, 3),
             MonthText(2025, 4), MonthText(2025, 10)}
AllQuarters == {<<y, n>> : y \in {2024, 2025}, n \in 1..4}

\* clients of storeMonthlySummary
MonthlyNext ==
    \E m \in D1Months, v \in Bodies : storeMonthlySummary(MonthlySummary(m, v))

MonthlySpec == Init /\ [][MonthlyNext]_vars

(***************************************************************************)
(* Phase 0 scripts (scripts/preprocess.ts, scripts/upload-to-r2.ts).       *)
(* A journal file is its path under Journal/ (year directory, further      *)
(* directories, file name without .md), its frontmatter date ('' when it   *)
(* has none) and its content; '' is <<>>.                                  *)
(***************************************************************************)
MaxRuns == 2   \* runs of the upload script per behaviour

JournalFile(yearDir, subDir, name, frontmatterDate, content) ==
    [path |-> <<yearDir, subDir, name>>, name |-> name,
     frontmatterDate |-> frontmatterDate, content |-> content]

\* /^\d{4}-\d{2}-\d{2}$/
IsDatePattern(t) ==
    /\ Len(t) = 10
    /\ \A i \in 1..10 : IF i \in {5, 8} THEN t[i] = Dash ELSE t[i] \in 0..9

\* the date of a file name YYYY-MM-DD.md, or '' (null)
extractDateFromFilename(name) == IF IsDatePattern(name) THEN name ELSE <<>>

\* the pattern, and new Date(dateStr) is not Invalid Date: a month 01..12 and
\* a day 01..31
isValidDate(dateStr) ==
    /\ IsDatePattern(dateStr)
    /\ ParseNumber(SubSeq(dateStr, 6, 7)) \in 1..12
    /\ ParseNumber(SubSeq(dateStr, 9, 10)) \in 1..31

\* processEntry: the set holding the ProcessedEntry, empty for `return null`
processEntry(f) ==
    LET filenameDate == extractDateFromFilename(f.name)
        finalDate == IF f.frontmatterDate # <<>> /\ filenameDate = <<>>
                     THEN Slice(f.frontmatterDate, 10)
                     ELSE filenameDate
    IN  IF finalDate = <<>> \/ ~isValidDate(finalDate) THEN {}
        ELSE {[date |-> finalDate, originalPath |-> f.path, cleanedContent |-> f.content,
               contentHash |-> hashContentPreprocess(f.content)]}

\* the orders processedEntries.sort((a, b) => a.date.localeCompare(b.date)) can
\* leave: ascending dates, entries of one date in the order the scan found
\* them (Journal/2024 before Journal/2025, readdir order within a directory)
SortedByDate(entries) ==
    {s \in [1..Cardinality(entries) -> entries] :
        /\ \A i, j \in DOMAIN s : i # j => s[i] # s[j]
        /\ \A i, j \in DOMAIN s :
              i < j => /\ TextLeq(s[i].date, s[j].date)
                       /\ s[i].date = s[j].date
                             => s[i].originalPath[1] <= s[j].originalPath[1]}

RECURSIVE WriteEntries(_, _, _)
\* writeFileSync(join(outputDir, `${entry.date}.md`), entry.cleanedContent), in order
WriteEntries(files, entries, i) ==
    IF i > Len(entries) THEN files
    ELSE WriteEntries(Put(files, entries[i].date, entries[i].cleanedContent), entries, i + 1)

ManifestEntry(entry) ==
    [date |-> entry.date, originalPath |-> entry.originalPath,
     r2Key |-> <<"journals/">> \o entry.date, contentHash |-> entry.contentHash]

\* main of preprocess.ts
Preprocess ==
    /\ IF journal = {}
       THEN preprocessed' = [preprocessed EXCEPT
                               !.manifest = [totalEntries |-> 0, entries |-> <<>>]]
       ELSE \E processedEntries \in SortedByDate(UNION {processEntry(f) : f \in journal}) :
              preprocessed' =
                  [manifest |-> [totalEntries |-> Len(processedEntries),
                                 entries |-> [i \in DOMAIN processedEntries |->
                                                ManifestEntry(processedEntries[i])]],
                   files |-> WriteEntries(preprocessed.files, processedEntries, 1)]
    /\ UNCHANGED <<journal, r2, putLog>>
    /\ UNCHANGED <<coordVars, queueVars, tableVars, cache, gwVars, cacheHist>>

\* objectExists: the HEAD answer carries the same content-hash metadata
objectExists(bucket, key, contentHash) ==
    key \in DOMAIN bucket /\ bucket[key].contentHash = contentHash

ManifestKey == <<"manifest.json">>

RECURSIVE UploadEntries(_, _, _, _)
\* the loop over manifest.entries: uploadFile(client, entry.r2Key, content,
\* entry.contentHash) with skipIfExists; the bucket and the keys put so far
UploadEntries(acc, entries, files, i) ==
    IF i > Len(entries) THEN acc
    ELSE LET entry == entries[i] IN
         IF entry.date \notin DOMAIN files
             \/ objectExists(acc.bucket, entry.r2Key, entry.contentHash)
         THEN UploadEntries(acc, entries, files, i + 1)
         ELSE UploadEntries(
                  [bucket |-> Put(acc.bucket, entry.r2Key,
                                  [body |-> files[entry.date],
                                   contentHash |-> entry.contentHash]),
                   puts |-> Append(acc.puts, entry.r2Key)],
                  entries, files, i + 1)

\* main of upload-to-r2.ts, against a bucket that answers every command
Upload ==
    /\ Len(putLog) < MaxRuns
    /\ preprocessed.manifest # Null
    /\ IF preprocessed.manifest.totalEntries = 0
       THEN /\ r2' = r2
            /\ putLog' = Append(putLog, [manifest |-> preprocessed.manifest, puts |-> <<>>])
       ELSE LET done == UploadEntries([bucket |-> r2, puts |-> <<>>],
                                      preprocessed.manifest.entries, preprocessed.files, 1)
            IN  /\ r2' = Put(done.bucket, ManifestKey,
                             [body |-> preprocessed.manifest, contentHash |-> "generatedAt"])
                /\ putLog' = Append(putLog, [manifest |-> preprocessed.manifest,
                                             puts |-> Append(done.puts, ManifestKey)])
    /\ UNCHANGED <<journal, preprocessed>>
    /\ UNCHANGED <<coordVars, queueVars, tableVars, cache, gwVars, cacheHist>>

\* journal files: one per year directory, two more that resolve to the date
\* of another (a subdirectory, a frontmatter date), and two without a valid date
JournalFiles ==
    {JournalFile(2024, <<>>, DateText(2024, 12, 31), <<>>, 1),
     JournalFile(2025, <<>>, DateText(2025, 3, 3), <<>>, 2),
     JournalFile(2025, <<QChar>>, DateText(2025, 3, 3), <<>>, 3),
     JournalFile(2024, <<>>, <<QChar, 1>>, DateText(2025, 3, 3) \o <<QChar, 0, 9>>, 4),
     JournalFile(2025, <<>>, <<QChar, 2>>, <<>>, 5),
     JournalFile(2025, <<>>, DateText(2025, 13, 1), <<>>, 6)}

\* the scripts run over any set of journal files
ScriptsInit ==
    /\ WorkerInit
    /\ journal \in SUBSET JournalFiles
    /\ preprocessed = [manifest |-> Null, files |-> EmptyMap]
    /\ r2 = EmptyMap
    /\ putLog = <<>>

PreprocessNext == Preprocess

PreprocessSpec == ScriptsInit /\ [][PreprocessNext]_vars

UploadNext ==
    \/ Preprocess
    \/ Upload

UploadSpec == ScriptsInit /\ [][UploadNext]_vars

(***************************************************************************)
(* The extraction cache and its clients.                                   *)
(***************************************************************************)
\* cache.get(key, 'json')
getCachedExtraction(kv, date, contentHash) ==
    LET key == extractionCacheKey(date, contentHash)
    IN  IF key \in DOMAIN kv THEN JSONParse(kv[key].value) ELSE Null

\* KV drops an entry when its expirationTtl has run out
Expire ==
    /\ \E k \in DOMAIN cache : cache' = [x \in DOMAIN cache \ {k} |-> cache[x]]
    /\ UNCHANGED <<tableVars, coordVars, queueVars, gwVars, cacheHist, scriptVars>>

MaxPromptVersion == 2

\* a deployment with changed prompt text or output schema
DeployPrompt ==
    /\ promptVersion < MaxPromptVersion
    /\ promptVersion' = promptVersion + 1
    /\ UNCHANGED <<tableVars, coordVars, queueVars, gwVars, cache, cacheLog, scriptVars>>

\* entries looked up and cached: date and content
CacheDates == {DateText(2025, 3, 3), DateText(2025, 3, 4)}
Contents == {1, 2}
CacheEntries == {<<DateText(2025, 3, 3), 1>>, <<DateText(2025, 3, 3), 2>>,
                 <<DateText(2025, 3, 4), 1>>}
\* the content hash as the manifest carries it and as the worker computes it
HashesOf(c) == {hashContentPreprocess(c), hashContent(c)}
\* what the model may answer for an entry: within the bounds or not
LLMExtractions(d) == {JournalExtraction(d, 7, 5), JournalExtraction(d, 11, 6)}

CacheNext ==
    \/ \E e \in CacheEntries : \E h \in HashesOf(e[2]), x \in LLMExtractions(e[1]) :
          setCachedExtraction(e[1], h, x)
    \/ Expire
    \/ DeployPrompt

CacheSpec == Init /\ [][CacheNext]_vars

\* concurrent worker invocations calling the OpenRouter client
RateNext ==
    \/ ConcurrentFetch
    \/ Tick

RateSpec == Init /\ [][RateNext]_vars

(***************************************************************************)
(* Properties of the OpenRouter client.                                    *)
(***************************************************************************)
Count429(h) == Cardinality({i \in DOMAIN h : h[i] = "429"})

\* C11: the first two 429 answers of a call are free: when the call gives up,
\* the requests it sent, not counting its first two 429s, number at least the
\* configured ceiling.
C11_First429sAreFree ==
    gw.pc = "thrown"
        => Len(gw.history) - Min(Count429(gw.history), 2) >= gw.maxRetries

\* C12: a non-429 4xx answer ends the call: it is the last answer of the call,
\* the call has thrown, and no sleep follows it.
C12_4xxIsPermanent ==
    \A i \in DOMAIN gw.history :
        gw.history[i] = "4xx" =>
            /\ i = Len(gw.history)
            /\ gw.pc = "thrown"
            /\ Len(sleepLog) < i

\* C13: with base 2 s every backoff sleep is min(base * 2^attempt, 60 s), so
\* none is longer than 60 s, whatever the configured ceiling.
C13_SleepCapped ==
    gw.retryDelayMs = DefaultRetryDelayMs =>
        \A i \in DOMAIN sleepLog :
            /\ sleepLog[i] = Min(DefaultRetryDelayMs * Pow2(i - 1), MinuteMs)
            /\ sleepLog[i] <= MinuteMs

OnlyFailures == \A i \in DOMAIN gw.history : gw.history[i] \in {"5xx", "netErr"}

C14_Bounded ==
    (gw.pc # "idle" /\ OnlyFailures) =>
        /\ Len(fetchLog) <= gw.maxRetries
        /\ gw.pc # "returned"
        /\ \A i \in DOMAIN sleepLog : sleepLog[i] = gw.retryDelayMs * Pow2(i - 1)
        /\ gw.pc = "thrown" =>
              /\ Len(fetchLog) = gw.maxRetries
              /\ gw.outcome \in {"5xx", "netErr", "Max retries exceeded"}

C15_RateCeiling ==
    \A i \in DOMAIN fetchLog :
        Cardinality({j \in DOMAIN fetchLog :
                        /\ fetchLog[i].at <= fetchLog[j].at
                        /\ fetchLog[j].at < fetchLog[i].at + MinuteMs}) <= RequestsPerMinute

\* C16: every request sent to the provider, retries included, carries the
\* zero-data-retention header.
C16_EveryRequestHasZDR ==
    \A i \in DOMAIN fetchLog :
        /\ "XZDR" \in DOMAIN fetchLog[i].headers
        /\ fetchLog[i].headers.XZDR = "true"

C16_Witness ==
    /\ Len(fetchLog) = 3
    /\ gw.history = <<"429", "5xx", "ok">>
    /\ fetchLog[3].attempt = 2

\* the positions of the answers that reached the catch block
CaughtAt(h) == {i \in DOMAIN h : h[i] \notin {"429", "ok"}}

\* C28: a call sends at most maxRetries requests; it has returned the text
\* exactly when one request was answered OK with a readable body, that request
\* being its last; a call that has thrown sent maxRetries requests and threw
\* the error of its most recent non-429 failure, or 'Max retries exceeded'
\* when it had none (all answers 429, or maxRetries 0 and no request).
C28_OutcomeOfCall ==
    /\ Len(fetchLog) = Len(gw.history)
    /\ Len(fetchLog) <= gw.maxRetries
    /\ gw.pc = "returned" <=> (\E i \in DOMAIN gw.history : gw.history[i] = "ok")
    /\ gw.pc = "returned" => (gw.outcome = "content" /\ gw.history[Len(gw.history)] = "ok")
    /\ gw.pc = "thrown" =>
          /\ Len(fetchLog) = gw.maxRetries
          /\ gw.outcome = IF CaughtAt(gw.history) = {} THEN "Max retries exceeded"
                          ELSE gw.history[CHOOSE i \in CaughtAt(gw.history) :
                                             \A j \in CaughtAt(gw.history) : j <= i]

C28_Witness ==
    /\ gw.pc = "thrown"
    /\ gw.history = <<"okBadBody", "429", "429">>
    /\ gw.outcome = "okBadBody"

(***************************************************************************)
(* Properties of the persistence helpers.                                  *)
(***************************************************************************)
\* C17: after storeExtraction(d, E), getExtraction(d) returns E, whether or
\* not d had an extraction before, and what getExtraction returns for every
\* other date is what it returned before the store.
C17_ExtractionRoundTrip ==
    [][\A d \in D1Dates, v \in Bodies :
          storeExtraction(d, Extraction(d, v)) =>
              /\ getExtraction(extractions', d) = {Extraction(d, v)}
              /\ \A d2 \in D1Dates \ {d} :
                    getExtraction(extractions', d2) = getExtraction(extractions, d2)]_vars

C17_Witness ==
    /\ getExtraction(extractions, DateText(2025, 3, 1)) = {Extraction(DateText(2025, 3, 1), 2)}
    /\ getExtraction(extractions, DateText(2025, 3, 3)) = {Extraction(DateText(2025, 3, 3), 1)}
    /\ getExtraction(extractions, DateText(2025, 2, 28)) = {Null}

StoredDates == {r.date : r \in Rows(extractions)}

\* C18: getExtractionsInRange(a, b) returns extractions in strictly ascending
\* date order, as many as there are dates in [a, b] (ends included) with a
\* stored extraction.
C18_RangeAscendingAndComplete ==
    \A a \in RangeEnds, b \in RangeEnds :
        LET res == getExtractionsInRange(extractions, a, b) IN
        /\ \A i \in DOMAIN res, j \in DOMAIN res : i < j => TextLess(res[i].date, res[j].date)
        /\ Len(res) = Cardinality({d \in StoredDates : TextLeq(a, d) /\ TextLeq(d, b)})

C18_Witness ==
    /\ StoredDates = D1Dates
    /\ Len(getExtractionsInRange(extractions, DateText(2025, 3, 1), DateText(2025, 12, 31))) = 3
    /\ Len(getExtractionsInRange(extractions, DateText(2025, 3, 2), DateText(2025, 3, 2))) = 0

OneRowPerKey ==
    /\ \A i \in DOMAIN extractions, j \in DOMAIN extractions :
          extractions[i].date = extractions[j].date => i = j
    /\ \A i \in DOMAIN weekly, j \in DOMAIN weekly :
          weekly[i].week_start = weekly[j].week_start => i = j
    /\ \A i \in DOMAIN monthly, j \in DOMAIN monthly :
          monthly[i].month = monthly[j].month => i = j
    /\ \A i \in DOMAIN quarterly, j \in DOMAIN quarterly :
          quarterly[i].quarter = quarterly[j].quarter => i = j
    /\ DOMAIN synthesis \subseteq {"main"}

KeysPersist ==
    /\ {r.date : r \in Rows(extractions)} \subseteq {r.date : r \in Rows(extractions')}
    /\ {r.week_start : r \in Rows(weekly)} \subseteq {r.week_start : r \in Rows(weekly')}
    /\ {r.month : r \in Rows(monthly)} \subseteq {r.month : r \in Rows(monthly')}
    /\ {r.quarter : r \in Rows(quarterly)} \subseteq {r.quarter : r \in Rows(quarterly')}
    /\ DOMAIN synthesis \subseteq DOMAIN synthesis'

LatestBodyStored ==
    /\ \A d \in UpsertDates, v \in Bodies :
          storeExtraction(d, Extraction(d, v)) =>
              {JSONParse(r.extraction_json) : r \in {q \in Rows(extractions') : q.date = d}}
                  = {Extraction(d, v)}
    /\ \A w \in UpsertWeeks, v \in Bodies :
          storeWeeklySummary(WeeklySummaryOf(w, v)) =>
              {JSONParse(r.summary_json) : r \in {q \in Rows(weekly') : q.week_start = w[1]}}
                  = {WeeklySummaryOf(w, v)}
    /\ \A m \in UpsertMonths, v \in Bodies :
          storeMonthlySummary(MonthlySummary(m, v)) =>
              {JSONParse(r.summary_json) : r \in {q \in Rows(monthly') : q.month = m}}
                  = {MonthlySummary(m, v)}
    /\ \A q \in UpsertQuarters, v \in Bodies :
          storeQuarterlyNotepad(QuarterlyNotepad(q, v)) =>
              {JSONParse(r.notepad_json) : r \in {x \in Rows(quarterly') : x.quarter = q}}
                  = {QuarterlyNotepad(q, v)}
    /\ \A v \in Bodies :
          storeSynthesis(TwoYearSynthesis(v)) =>
              {JSONParse(r.synthesis_json) : r \in Rows(synthesis')} = {TwoYearSynthesis(v)}

\* C19: each artifact table holds at most one row per natural key, a store
\* leaves the stored body as the one row of its key, and no step removes a key.
C19_UpsertByNaturalKey ==
    /\ []OneRowPerKey
    /\ [][KeysPersist /\ LatestBodyStored]_vars

C19_Witness ==
    /\ Cardinality(DOMAIN extractions) = 2
    /\ Cardinality(DOMAIN weekly) = 2
    /\ Cardinality(DOMAIN monthly) = 2
    /\ Cardinality(DOMAIN quarterly) = 2
    /\ \E r \in Rows(monthly) : JSONParse(r.summary_json).happiness_index = 2
    /\ synthesis # EmptyMap

\* the months for which getWeeklySummariesForMonth returns the summary s
MonthsReturning(s) ==
    {m \in AllMonths :
        \E i \in DOMAIN getWeeklySummariesForMonth(weekly, m) :
            getWeeklySummariesForMonth(weekly, m)[i] = s}

\* C20: every stored weekly summary is returned for exactly one month, the one
\* named by the first seven characters of its week_start, and every result is
\* in strictly ascending week_start order.
C20_WeeklyBelongsToOneMonth ==
    /\ \A r \in Rows(weekly) :
          MonthsReturning(JSONParse(r.summary_json)) = {SubSeq(r.week_start, 1, 7)}
    /\ \A m \in AllMonths :
          LET res == getWeeklySummariesForMonth(weekly, m) IN
          \A i \in DOMAIN res, j \in DOMAIN res :
              i < j => TextLess(res[i].week_start, res[j].week_start)

C20_Witness ==
    /\ Cardinality(DOMAIN weekly) = 5
    /\ Len(getWeeklySummariesForMonth(weekly, MonthText(2025, 9))) = 2
    /\ Len(getWeeklySummariesForMonth(weekly, MonthText(2024, 12))) = 1
    /\ Len(getWeeklySummariesForMonth(weekly, MonthText(2025, 1))) = 1

\* C27: the coordinator's storage never holds the key pipeline, so every
\* status response reports phase idle and nothing else, whatever start, status
\* and reset requests and batch deliveries came before it.
C27_StatusAlwaysIdle ==
    /\ "pipeline" \notin DOMAIN storage
    /\ response.op = "status" => response.body = [phase |-> "idle"]

C27_Witness ==
    /\ response.op = "status"
    /\ lastCtl = "start"
    /\ deliveries >= 1
    /\ batch = <<>>
    /\ \E m \in ackedLog : m.type = "extraction"

\* the stored summaries of the months 3(n-1)+1 .. 3n of year y
StoredOfQuarter(y, n) ==
    {JSONParse(r.summary_json) :
        r \in {q \in Rows(monthly) :
                  \E k \in (3 * (n - 1) + 1)..(3 * n) : q.month = MonthText(y, k)}}

\* C24: getMonthlySummariesForQuarter(YYYY-QN) returns exactly the stored
\* summaries of the months 3(N-1)+1 .. 3N of YYYY, in strictly ascending month
\* order, and every stored summary is returned for exactly one quarter.
C24_QuarterHasItsThreeMonths ==
    /\ \A yn \in AllQuarters :
          LET res == getMonthlySummariesForQuarter(monthly, QuarterText(yn[1], yn[2])) IN
          /\ {res[i] : i \in DOMAIN res} = StoredOfQuarter(yn[1], yn[2])
          /\ Len(res) = Cardinality(StoredOfQuarter(yn[1], yn[2]))
          /\ \A i \in DOMAIN res, j \in DOMAIN res :
                i < j => TextLess(res[i].month, res[j].month)
    /\ \A r \in Rows(monthly) :
          Cardinality({yn \in AllQuarters :
              \E i \in DOMAIN getMonthlySummariesForQuarter(monthly, QuarterText(yn[1], yn[2])) :
                  getMonthlySummariesForQuarter(monthly, QuarterText(yn[1], yn[2]))[i]
                      = JSONParse(r.summary_json)}) = 1

C24_Witness ==
    /\ Cardinality(DOMAIN monthly) = 5
    /\ Len(getMonthlySummariesForQuarter(monthly, QuarterText(2025, 1))) = 2
    /\ Len(getMonthlySummariesForQuarter(monthly, QuarterText(2024, 4))) = 1
    /\ Len(getMonthlySummariesForQuarter(monthly, QuarterText(2025, 3))) = 0

(***************************************************************************)
(* Properties of the extraction cache.                                     *)
(***************************************************************************)
\* the lookups of the model: a date, and a hash of a content in either form
Lookups == {<<d, h>> : d \in CacheDates, h \in UNION {HashesOf(c) : c \in Contents}}

Hit(l) == getCachedExtraction(cache, l[1], l[2]) # Null
WrittenBy(l) == cacheLog[extractionCacheKey(l[1], l[2])]

\* C21 as stated: a lookup returns a body only if setCachedExtraction stored
\* that body under the same date and the same content hash string.
C21_HitOnlyForSameHash ==
    \A l \in Lookups :
        Hit(l) =>
            /\ extractionCacheKey(l[1], l[2]) \in DOMAIN cacheLog
            /\ WrittenBy(l).date = l[1]
            /\ WrittenBy(l).contentHash = l[2]
            /\ WrittenBy(l).extraction = getCachedExtraction(cache, l[1], l[2])

\* C21 amended: a lookup returns a body only if setCachedExtraction stored
\* that body under the same date and a content hash with the same first 16
\* characters, which for the hashes of entries is a hash of the same content.
C21_HitOnlyForSameContent ==
    \A l \in Lookups :
        Hit(l) =>
            /\ extractionCacheKey(l[1], l[2]) \in DOMAIN cacheLog
            /\ WrittenBy(l).date = l[1]
            /\ Slice(WrittenBy(l).contentHash, CacheKeyHashLen) = Slice(l[2], CacheKeyHashLen)
            /\ \A c \in Contents : l[2] \in HashesOf(c) => WrittenBy(l).contentHash \in HashesOf(c)
            /\ WrittenBy(l).extraction = getCachedExtraction(cache, l[1], l[2])

C21_Witness ==
    /\ getCachedExtraction(cache, DateText(2025, 3, 3), hashContent(1))
          = JournalExtraction(DateText(2025, 3, 3), 7, 5)
    /\ getCachedExtraction(cache, DateText(2025, 3, 3), hashContent(2))
          = JournalExtraction(DateText(2025, 3, 3), 11, 6)
    /\ getCachedExtraction(cache, DateText(2025, 3, 4), hashContent(1)) = Null
    /\ extractionCacheKey(DateText(2025, 3, 4), hashContent(1)) \in DOMAIN cacheLog

\* the documented bounds of an extraction
ExtractionBounds(x) ==
    /\ Len(x.dominant_themes) <= 5
    /\ Len(x.key_quotes) <= 3
    /\ x.mood_score \in 1..10
    /\ x.energy_level \in 1..10
    /\ x.sleep_quality \subseteq 1..10
    /\ x.social_energy_spent \in 1..10

\* C22: every extraction persisted in D1 or served from the cache is within
\* the bounds.
C22_BodiesWithinBounds ==
    /\ \A r \in Rows(extractions) : ExtractionBounds(JSONParse(r.extraction_json))
    /\ \A l \in Lookups : Hit(l) => ExtractionBounds(getCachedExtraction(cache, l[1], l[2]))

\* C25: a lookup made under the current prompt version hits only a body that
\* was cached under that prompt version.
C25_HitOnlyUnderSamePrompt ==
    \A l \in Lookups : Hit(l) => WrittenBy(l).promptVersion = promptVersion

\* C30: for every entry the key built from the manifest's contentHash is the
\* key built from the worker's hash of the same content, although the two
\* hashes differ; a body cached under the one is served under the other.
C30_ManifestAndWorkerKeysAgree ==
    /\ \A d \in CacheDates, c \in Contents :
          /\ extractionCacheKey(d, hashContentPreprocess(c)) = extractionCacheKey(d, hashContent(c))
          /\ hashContentPreprocess(c) # hashContent(c)
    /\ \A k \in DOMAIN cache, c \in Contents :
          cacheLog[k].contentHash = hashContentPreprocess(c)
              => getCachedExtraction(cache, cacheLog[k].date, hashContent(c))
                    = cacheLog[k].extraction

C30_Witness ==
    /\ \E k \in DOMAIN cache : cacheLog[k].contentHash = hashContentPreprocess(2)
    /\ getCachedExtraction(cache, DateText(2025, 3, 3), hashContent(2))
          = JournalExtraction(DateText(2025, 3, 3), 7, 5)
    /\ getCachedExtraction(cache, DateText(2025, 3, 3), hashContent(1)) = Null

(***************************************************************************)
(* Properties of the phase 0 scripts.                                      *)
(***************************************************************************)
\* C23: the entries of the manifest are in strictly ascending date order: no
\* entry's date is at or after the date of a later entry.
C23_ManifestStrictlyAscending ==
    preprocessed.manifest # Null =>
        \A i, j \in DOMAIN preprocessed.manifest.entries :
            i < j => TextLess(preprocessed.manifest.entries[i].date,
                              preprocessed.manifest.entries[j].date)

EntryKeys == {<<"journals/">> \o d : d \in {DateText(2024, 12, 31), DateText(2025, 3, 3)}}

\* C26: a run of the upload over the manifest the run before it used puts no
\* entry object, and every run puts manifest.json.
C26_SecondUploadWritesManifestOnly ==
    \A i \in DOMAIN putLog :
        /\ \E k \in DOMAIN putLog[i].puts : putLog[i].puts[k] = ManifestKey
        /\ (i > 1 /\ putLog[i].manifest = putLog[i - 1].manifest)
              => \A k \in DOMAIN putLog[i].puts : putLog[i].puts[k] \notin EntryKeys

(***************************************************************************)
(* Properties of the queue consumer.                                       *)
(***************************************************************************)
\* the positions acked in the latest invocation are 1, 2, ... in this order;
\* while the batch runs they are the positions before the current one, after
\* a batch that ran to its end they are all its positions, and after a throw
\* at position k they are the positions before k
AckedInBatchOrder ==
    /\ invocation.acked = [i \in 1..Len(invocation.acked) |-> i]
    /\ batch # <<>> => (invocation.threw = 0 /\ Len(invocation.acked) = idx - 1)
    /\ (batch = <<>> /\ invocation.threw = 0) => Len(invocation.acked) = invocation.size
    /\ invocation.threw > 0 => Len(invocation.acked) = invocation.threw - 1

\* a step of the loop either acks the current message, whatever its type, and
\* nothing else, or throws at it and acks nothing; no ack is ever taken back
AckFollowsHandler ==
    /\ ackedLog \subseteq ackedLog'
    /\ (batch # <<>> /\ invocation'.acked # invocation.acked /\ invocation'.size = invocation.size)
          => (ackedLog' = ackedLog \cup {batch[idx]} /\ invocation'.threw = 0)
    /\ (invocation'.threw > 0 /\ invocation.threw = 0 /\ batch # <<>>)
          => (invocation'.threw = idx /\ batch' = <<>> /\ ackedLog' = ackedLog
                /\ invocation'.acked = invocation.acked)

\* C29: the messages of a batch are acked one at a time in batch order, each
\* after its handler returned and whatever its type; when the loop throws at a
\* message, that message and the later ones are not acked and the earlier
\* ones stay acked.
C29_AckEachInOrder ==
    /\ []AckedInBatchOrder
    /\ [][AckFollowsHandler]_vars

C29_Witness ==
    /\ invocation.size = 2
    /\ invocation.threw = 2
    /\ invocation.acked = <<1>>
    /\ ackedLog = {OtherMessage}

====
